---- MODULE Spec2Model ----
(***************************************************************************)
(* A model of the JOS kernel monitor, kern/monitor.c: the read-eval loop   *)
(* monitor(), the tokenizer and dispatcher runcmd(), and the command       *)
(* handlers mon_*.  The target is i386: int, long and pointers are 32 bits *)
(* wide.  A 32-bit word is held as the signed integer in LONG_MIN ..       *)
(* LONG_MAX that has the same bit pattern, so that no intermediate value   *)
(* leaves that range.                                                      *)
(***************************************************************************)
EXTENDS Integers, Sequences, FiniteSets, TLC

(***************************************************************************)
(* 32-bit arithmetic                                                       *)
(***************************************************************************)

\* the largest value of `long' (and of int) on i386
LONG_MAX == 2147483647

LONG_MIN == -LONG_MAX - 1

\* a + b modulo 2^32, on the signed representation
WrapAdd(a, b) ==
    IF a >= 0 /\ b >= 0 /\ a > LONG_MAX - b
    THEN (a - LONG_MAX - 1) + (b - LONG_MAX - 1)
    ELSE IF a < 0 /\ b < 0 /\ a < LONG_MIN - b
    THEN (a + LONG_MAX + 1) + (b + LONG_MAX + 1)
    ELSE a + b

\* a - b modulo 2^32
WrapSub(a, b) == WrapAdd(WrapAdd(a, -(b + 1)), 1)

\* the low 31 bits of a word, and its top bit
Low31(a) == IF a < 0 THEN a + LONG_MAX + 1 ELSE a

WithTop(top, low) == IF top THEN low - LONG_MAX - 1 ELSE low

\* a * 2 modulo 2^32: bit 30 of a becomes the top bit
WrapDbl(a) == WithTop((a \div 1073741824) % 2 = 1, (a % 1073741824) * 2)

\* a * base modulo 2^32, for the bases 16 and 10 of strtol: a * 16 moves bit 27 of
\* a to the top, a * 8 bit 28
WrapMul(a, base) ==
    IF base = 16
    THEN WithTop((a \div 134217728) % 2 = 1, (a % 134217728) * 16)
    ELSE WrapAdd(WithTop((a \div 268435456) % 2 = 1, (a % 268435456) * 8), WrapDbl(a))

\* the comparison a > b of the two words read as unsigned
UGt(a, b) ==
    IF (a < 0) = (b < 0) THEN a > b ELSE a < 0

RECURSIVE OrNat(_, _)
OrNat(a, b) ==
    IF a = 0 THEN b
    ELSE IF b = 0 THEN a
    ELSE (IF a % 2 = 1 \/ b % 2 = 1 THEN 1 ELSE 0) + 2 * OrNat(a \div 2, b \div 2)

RECURSIVE AndNotNat(_, _)
AndNotNat(a, m) ==
    IF a = 0 THEN 0
    ELSE (IF a % 2 = 1 /\ m % 2 = 0 THEN 1 ELSE 0) + 2 * AndNotNat(a \div 2, m \div 2)

\* a | b on 32-bit words
BitOr(a, b) == WithTop(a < 0 \/ b < 0, OrNat(Low31(a), Low31(b)))

\* a & ~m on 32-bit words
BitAndNot(a, m) == WithTop(a < 0 /\ m >= 0, AndNotNat(Low31(a), Low31(m)))

\* (bool)(a & m), for a mask m of one bit below the top bit
BitTest(a, m) == IF (Low31(a) \div m) % 2 = 1 THEN 1 ELSE 0

(***************************************************************************)
(* Memory layout (inc/mmu.h, inc/memlayout.h, inc/types.h)                 *)
(***************************************************************************)

PGSIZE == 4096

PTE_P == 1

PTE_W == 2

PTE_U == 4

\* 0xF0000000, the kernel's fixed physical-to-virtual offset
KERNBASE == -268435456

\* ROUNDDOWN(a, PGSIZE): computed on the word as unsigned, cast back to long
ROUNDDOWN(a) == a - (a % PGSIZE)

\* ROUNDUP(a, PGSIZE) == ROUNDDOWN(a + PGSIZE - 1, PGSIZE), modulo 2^32
ROUNDUP(a) == ROUNDDOWN(WrapAdd(a, PGSIZE - 1))

\* PTE_ADDR(pte): the entry without its low 12 (flag) bits
PTE_ADDR(pte) == ROUNDDOWN(pte)

\* KADDR(pa): the kernel virtual address of physical address pa
KADDR(pa) == WrapAdd(pa, KERNBASE)

(***************************************************************************)
(* Characters and C strings.  A character is a one-character string, the   *)
(* terminator is NUL; a buffer is a sequence of characters followed by an  *)
(* implicit terminator; a char* into a buffer is an index into it, and 0   *)
(* is the null pointer.                                                    *)
(***************************************************************************)

NUL == ""

\* #define WHITESPACE "\t\r\n "
WhitespaceNoCR == {"\t", "\n", " "}

WHITESPACE == {"\t", "\r", "\n", " "}

At(b, i) == IF i \in 1..Len(b) THEN b[i] ELSE NUL

\* the string a char* points to
RECURSIVE CStr(_, _)
CStr(b, i) == IF At(b, i) = NUL THEN <<>> ELSE <<b[i]>> \o CStr(b, i + 1)

\* the value of a digit character in strtol, or 99 when it is no digit
DigitOf(c) ==
    CASE c = "0" -> 0 [] c = "1" -> 1 [] c = "2" -> 2 [] c = "3" -> 3
      [] c = "4" -> 4 [] c = "5" -> 5 [] c = "6" -> 6 [] c = "7" -> 7
      [] c = "8" -> 8 [] c = "9" -> 9
      [] c \in {"a", "A"} -> 10 [] c \in {"b", "B"} -> 11
      [] c \in {"c", "C"} -> 12 [] c \in {"d", "D"} -> 13
      [] c \in {"e", "E"} -> 14 [] c \in {"f", "F"} -> 15
      [] OTHER -> 99

\* the loop of strtol: val is the long accumulated from the digits before s[i]
RECURSIVE Digits(_, _, _, _)
Digits(s, i, base, val) ==
    IF val \in LONG_MIN..LONG_MAX /\ i <= Len(s) /\ DigitOf(s[i]) < base
    THEN LET v == WrapAdd(WrapMul(val, base), DigitOf(s[i]))
         IN  Digits(s, i + 1, base, v)
    ELSE val

\* strtol(s, NULL, 0): a decimal literal, or a hexadecimal one after "0x";
\* conversion stops at the first character that is no digit of the base
strtol(s) ==
    IF Len(s) >= 2 /\ s[1] = "0" /\ s[2] = "x"
    THEN Digits(s, 3, 16, 0)
    ELSE Digits(s, 1, 10, 0)

(***************************************************************************)
(* State                                                                   *)
(***************************************************************************)

VARIABLES
    pc,          \* where monitor() is: "readline" (at the top of its loop), "returned",
                 \* "resumed" (env_run took the CPU), "fault" (kernel page fault)
                 \* or "hang" (a loop that never ends)
    line,        \* the line readline() returned last, as read
    buf,         \* the same buffer after runcmd() tokenized it in place
    argc,        \* runcmd's argc when it left the parse loop
    argv,        \* runcmd's argv[MAXARGS]: pointers into buf, 0 is NULL, -1 unwritten
    argvOob,     \* whether runcmd stored through argv[] outside 0 .. MAXARGS-1
    out,         \* what was written to the console since the last prompt
    handler,     \* the mon_* function runcmd invoked for the line, or "none"
    status,      \* what runcmd returned for the line
    lastRead,    \* what the last readline() returned: "none", "line" or "eof"
    eofSeen,     \* whether some readline() returned NULL
    tf,          \* monitor's argument: <<>> is NULL, <<t>> points to Trapframe t
    env_tf,      \* curenv->env_tf
    envRuns,     \* how many times env_run() was called
    resumedWith, \* curenv->env_tf at the call of env_run(): <<>> before it
    pgtab,       \* kern_pgdir: page -> page-table entry, for the pages that have one
    word0,       \* the word at virtual address 0, where a null pte_t* points
    nullDeref,   \* whether a null pte_t* was dereferenced
    mem,         \* kernel virtual memory: address -> 4-byte word
    ebp,         \* the frame pointer register while a handler runs
    last,        \* what the last command line did as setperm
    undo,        \* <<v>> when the last two command lines were `setperm A set X' and
                 \* `setperm A clear X' on one mapped page whose entry was v before
                 \* them; <<>> otherwise
    range,       \* <<begin, end>> after line 131 of the last showmappings, else <<>>
    reads,       \* the addresses the last showmem read a word at, in order; the frame
                 \* pointers the last backtrace visited, in order
    COLOR_       \* the console's colour attribute

vars ==
    <<pc, line, buf, argc, argv, argvOob, out, handler, status, lastRead, eofSeen,
      tf, env_tf, envRuns, resumedWith, pgtab, word0, nullDeref, mem, ebp, last,
      undo, range, reads, COLOR_>>

\* one cprintf: the format up to its first newline, its numeric arguments, its %s
\* argument
Msg(m, a, t) == [msg |-> m, args |-> a, text |-> t]

(***************************************************************************)
(* runcmd: the tokenizer                                                   *)
(***************************************************************************)

MAXARGS == 16

\* while (*buf && strchr(WHITESPACE, *buf)) *buf++ = 0;
RECURSIVE GobbleWsKeep(_, _)
GobbleWsKeep(b, i) ==
    IF At(b, i) # NUL /\ At(b, i) \in WHITESPACE
    THEN GobbleWsKeep(b, i + 1)
    ELSE <<b, i>>

RECURSIVE GobbleWs(_, _)
GobbleWs(b, i) ==
    IF At(b, i) # NUL /\ At(b, i) \in WHITESPACE
    THEN GobbleWs([b EXCEPT ![i] = NUL], i + 1)
    ELSE <<b, i>>

\* while (*buf && !strchr(WHITESPACE, *buf)) buf++;
RECURSIVE ScanArg(_, _)
ScanArg(b, i) ==
    IF At(b, i) # NUL /\ At(b, i) \notin WHITESPACE THEN ScanArg(b, i + 1) ELSE i

\* if (argc == MAXARGS-1)
TooManyOff(n) == n = MAXARGS + 1

TooManyEarly(n) == n = MAXARGS - 2

TooMany(n) == n = MAXARGS - 1

\* argv[i] = p, on an array of MAXARGS slots
Store(av, i, p) == IF i \in DOMAIN av THEN [av EXCEPT ![i] = p] ELSE av

\* the while (1) loop of runcmd and the argv[argc] = 0 after it
RECURSIVE ParseLoop(_, _, _, _, _)
ParseLoop(b, i, n, av, oob) ==
    LET g == GobbleWs(b, i)
        b1 == g[1]
        i1 == g[2]
    IN  IF At(b1, i1) = NUL
        THEN [rejected |-> FALSE, buf |-> b1, argc |-> n,
              argv |-> Store(av, n, 0), oob |-> oob \/ n \notin DOMAIN av]
        ELSE IF TooMany(n)
        THEN [rejected |-> TRUE, buf |-> b1, argc |-> n, argv |-> av, oob |-> oob]
        ELSE ParseLoop(b1, ScanArg(b1, i1), n + 1, Store(av, n, i1),
                       oob \/ n \notin DOMAIN av)

\* argc = 0; argv[argc] = 0; and the loop
Parse(b) ==
    ParseLoop(b, 1, 0, [k \in 0..(MAXARGS - 1) |-> IF k = 0 THEN 0 ELSE -1], FALSE)

\* the strings argv[0] .. argv[argc-1] a handler receives; a slot past the array
\* holds no string of the line
ArgStrings(p) ==
    [k \in 0..(p.argc - 1) |->
        IF k \in DOMAIN p.argv THEN CStr(p.buf, p.argv[k]) ELSE <<>>]

(***************************************************************************)
(* runcmd: the command registry and the lookup                             *)
(***************************************************************************)

W_help == <<"h", "e", "l", "p">>

W_kerninfo == <<"k", "e", "r", "n", "i", "n", "f", "o">>

W_backtrace == <<"b", "a", "c", "k", "t", "r", "a", "c", "e">>

W_setcolor == <<"s", "e", "t", "c", "o", "l", "o", "r">>

W_showmappings == <<"s", "h", "o", "w", "m", "a", "p", "p", "i", "n", "g", "s">>

W_setperm == <<"s", "e", "t", "p", "e", "r", "m">>

W_showmem == <<"s", "h", "o", "w", "m", "e", "m">>

W_continue == <<"c", "o", "n", "t", "i", "n", "u", "e">>

W_c == <<"c">>

W_stepi == <<"s", "t", "e", "p", "i">>

W_si == <<"s", "i">>

\* static struct Command commands[]
commands ==
    << [name |-> W_help, func |-> "mon_help"],
       [name |-> W_kerninfo, func |-> "mon_kerninfo"],
       [name |-> W_backtrace, func |-> "mon_backtrace"],
       [name |-> W_setcolor, func |-> "mon_setcolor"],
       [name |-> W_showmappings, func |-> "mon_showmappings"],
       [name |-> W_setperm, func |-> "mon_setperm"],
       [name |-> W_showmem, func |-> "mon_showmem"],
       [name |-> W_continue, func |-> "mon_continue"],
       [name |-> W_c, func |-> "mon_continue"],
       [name |-> W_stepi, func |-> "mon_stepi"],
       [name |-> W_si, func |-> "mon_stepi"] >>

\* strcmp(a, b) == 0
StrEqIgnoreCase(a, b) ==
    LET lower(c) == IF c = "H" THEN "h" ELSE c
    IN  /\ Len(a) = Len(b)
        /\ \A i \in 1..Len(a) : lower(a[i]) = lower(b[i])

StrEq(a, b) == a = b

\* for (i = 0; i < ARRAY_SIZE(commands); i++) if (strcmp(argv[0], commands[i].name) == 0)
RECURSIVE LookupFrom(_, _)
LookupFrom(name, i) ==
    IF i > Len(commands) THEN "unknown"
    ELSE IF StrEq(name, commands[i].name) THEN commands[i].func
    ELSE LookupFrom(name, i + 1)

\* what runcmd does after the parse p: "toomany", "empty", "unknown", or the
\* handler it calls
Dispatch(p) ==
    IF p.rejected THEN "toomany"
    ELSE IF p.argc = 0 THEN "empty"
    ELSE LookupFrom(CStr(p.buf, p.argv[0]), 1)

\* runcmd(l, tf) up to the call of the handler: the parse, the handler found, and
\* the strings argv[0] .. argv[argc-1]
Runcmd(l) ==
    LET p == Parse(l)
    IN  [line |-> l, p |-> p, func |-> Dispatch(p),
         args |-> IF p.rejected THEN <<>> ELSE ArgStrings(p)]

(***************************************************************************)
(* monitor: the loop.  One action is one pass of the loop: readline, then  *)
(* runcmd and the handler it calls.                                        *)
(***************************************************************************)

\* if (buf != NULL) if (runcmd(buf, tf) < 0) break;
LoopExitsOnNull(isNull, r) == isNull \/ r < 0

LoopExits(isNull, r) == ~isNull /\ r < 0

\* a command line that was no setperm, or a setperm that stopped at its usage message
NoEdit ==
    [kind |-> "none", letter |-> NUL, addr |-> 0, mapped |-> FALSE, before |-> 0, after |-> 0]

\* readline returned r.line; runcmd parsed it and called h (or none), which wrote o
Ran(r, h, o) ==
    /\ pc = "readline"
    /\ lastRead' = "line"
    /\ line' = r.line
    /\ buf' = r.p.buf
    /\ argc' = r.p.argc
    /\ argv' = r.p.argv
    /\ argvOob' = r.p.oob
    /\ handler' = h
    /\ out' = o
    /\ UNCHANGED <<eofSeen, tf, mem, ebp>>

\* runcmd returned st to monitor's loop
Returned(st) ==
    /\ status' = st
    /\ pc' = IF LoopExits(FALSE, st) THEN "returned" ELSE "readline"

\* the line edited no page-table entry
NoEditFrame ==
    /\ last' = NoEdit
    /\ undo' = <<>>
    /\ UNCHANGED <<pgtab, word0, nullDeref>>

\* the line was no setperm, showmappings or showmem that got past its usage check
NoSetperm ==
    /\ NoEditFrame
    /\ range' = <<>>
    /\ reads' = <<>>

\* buf = readline("K> ") returned NULL
ReadlineNull ==
    /\ pc = "readline"
    /\ lastRead' = "eof"
    /\ eofSeen' = TRUE
    /\ pc' = IF LoopExits(TRUE, 0) THEN "returned" ELSE "readline"
    /\ line' = <<>>
    /\ buf' = <<>>
    /\ out' = <<>>
    /\ handler' = "none"
    /\ range' = <<>>
    /\ reads' = <<>>
    /\ UNCHANGED <<argc, argv, argvOob, status, tf, env_tf, envRuns, resumedWith,
                   pgtab, word0, nullDeref, mem, ebp, last, undo, COLOR_>>

\* runcmd: the line has a token after MAXARGS-1 of them
RuncmdTooMany(R) ==
    \E r \in R :
        /\ r.func = "toomany"
        /\ Ran(r, "none", <<Msg("Too many arguments (max %d)", <<MAXARGS>>, <<>>)>>)
        /\ Returned(0)
        /\ NoSetperm
        /\ UNCHANGED <<env_tf, envRuns, resumedWith, COLOR_>>

\* runcmd: if (argc == 0) return 0;
RuncmdEmpty(R) ==
    \E r \in R :
        /\ r.func = "empty"
        /\ Ran(r, "none", <<>>)
        /\ Returned(0)
        /\ NoSetperm
        /\ UNCHANGED <<env_tf, envRuns, resumedWith, COLOR_>>

\* runcmd: no entry of commands[] has the name argv[0]
RuncmdUnknown(R) ==
    \E r \in R :
        /\ r.func = "unknown"
        /\ Ran(r, "none", <<Msg("Unknown command '%s'", <<>>, r.args[0])>>)
        /\ Returned(0)
        /\ NoSetperm
        /\ UNCHANGED <<env_tf, envRuns, resumedWith, COLOR_>>

(***************************************************************************)
(* mon_setperm                                                             *)
(***************************************************************************)

W_clear == <<"c", "l", "e", "a", "r">>

W_set == <<"s", "e", "t">>

W_change == <<"c", "h", "a", "n", "g", "e">>

\* the page tables after pgdir_walk(kern_pgdir, va, create): when create is not 0
\* a page without a page table gets one, with an empty entry for the page
Walked(pt, va, create) ==
    IF create # 0 /\ ROUNDDOWN(va) \notin DOMAIN pt
    THEN pt @@ (ROUNDDOWN(va) :> 0)
    ELSE pt

\* pgdir_walk(kern_pgdir, va, create): a pointer to the entry of va's page, <<page>>,
\* or NULL, <<>>, when the page has no page table and none is created
pgdir_walk(pt, va, create) ==
    IF ROUNDDOWN(va) \in DOMAIN Walked(pt, va, create) THEN <<ROUNDDOWN(va)>> ELSE <<>>

\* what `int perm;' may hold before anything is assigned to it
UninitInts == {0, 6}

\* if (argv[3][0] == 'P') perm = PTE_P; ... 'W' ... 'U'
PermOfSwapped(spec, perm0) ==
    LET c == At(spec, 1)
        p1 == IF c = "P" THEN PTE_P ELSE perm0
        p2 == IF c = "W" THEN PTE_U ELSE p1
    IN  IF c = "U" THEN PTE_W ELSE p2

PermOf(spec, perm0) ==
    LET c == At(spec, 1)
        p1 == IF c = "P" THEN PTE_P ELSE perm0
        p2 == IF c = "W" THEN PTE_W ELSE p1
    IN  IF c = "U" THEN PTE_U ELSE p2

\* *p = *p & (~perm);
ClearBitsToggles(e, perm) ==
    IF BitAndNot(e, perm) = e THEN BitOr(e, perm) ELSE BitAndNot(e, perm)

ClearBitsNoop(e, perm) == e

ClearBits(e, perm) == BitAndNot(e, perm)

\* *p = *p | perm;
SetBits(e, perm) == BitOr(e, perm)

\* perm = (int)strtol(argv[3], NULL, 0); *p = *p | perm;
ChangeBitsAssign(e, perm) == perm

ChangeBits(e, perm) == BitOr(e, perm)

\* the three permission bits as the report shows them
Bits(e) == <<BitTest(e, PTE_P), BitTest(e, PTE_W), BitTest(e, PTE_U)>>

PteReport(e) == Msg("PTE_P: %x, PTE_W: %x, PTE_U: %x", Bits(e), <<>>)

\* lines 163-180 on the entry value e: the new value and what is written meanwhile
EditEntry(e, a, perm0) ==
    IF StrEq(a[2], W_change)
    THEN [e |-> ChangeBits(e, strtol(a[3])),
          o |-> <<Msg("...Change permission bits...", <<>>, <<>>)>>]
    ELSE LET perm == PermOf(a[3], perm0)
             e1 == IF StrEq(a[2], W_clear) THEN ClearBits(e, perm) ELSE e
             o1 == IF StrEq(a[2], W_clear)
                   THEN <<Msg("...Clear permission bits...", <<>>, <<>>)>> ELSE <<>>
             e2 == IF StrEq(a[2], W_set) THEN SetBits(e1, perm) ELSE e1
             o2 == IF StrEq(a[2], W_set)
                   THEN <<Msg("...Set permission bits...", <<>>, <<>>)>> ELSE <<>>
         IN  [e |-> e2, o |-> o1 \o o2]

\* the whole report of a setperm that took entry value e to r.e
SetpermReport(e, r) ==
    <<Msg("Before: ", <<>>, <<>>), PteReport(e)>> \o r.o
        \o <<Msg("After: ", <<>>, <<>>), PteReport(r.e)>>

EditKind(a) ==
    IF StrEq(a[2], W_change) THEN "change"
    ELSE IF StrEq(a[2], W_clear) THEN "clear"
    ELSE IF StrEq(a[2], W_set) THEN "set"
    ELSE "other"

\* the record of a setperm that got past its usage check
Edited(a, addr, isMapped, e, e2) ==
    [kind |-> EditKind(a), letter |-> At(a[3], 1), addr |-> addr,
     mapped |-> isMapped, before |-> e, after |-> e2]

MonSetperm(R) ==
    \E r \in R :
        /\ r.func = "mon_setperm"
        /\ range' = <<>>
        /\ reads' = <<>>
        /\ UNCHANGED <<env_tf, envRuns, resumedWith, COLOR_>>
        /\ LET a == r.args
               addr == strtol(a[1])
               p == pgdir_walk(pgtab, addr, 0)
           IN  IF r.p.argc # 4
               THEN /\ Ran(r, "mon_setperm",
                           <<Msg("Usage: setperm ADDR [clear|set] [P|W|U]", <<>>, <<>>)>>)
                    /\ Returned(0)
                    /\ NoEditFrame
               ELSE \E perm0 \in UninitInts :
                    IF p # <<>>
                    THEN LET e == pgtab[p[1]]
                             ed == EditEntry(e, a, perm0)
                         IN  /\ pgtab' = [pgtab EXCEPT ![p[1]] = ed.e]
                             /\ Ran(r, "mon_setperm", SetpermReport(e, ed))
                             /\ Returned(0)
                             /\ last' = Edited(a, addr, TRUE, e, ed.e)
                             /\ undo' = IF /\ last.kind = "set"
                                           /\ last.mapped
                                           /\ EditKind(a) = "clear"
                                           /\ At(a[3], 1) = last.letter
                                           /\ ROUNDDOWN(addr) = ROUNDDOWN(last.addr)
                                        THEN <<last.before>>
                                        ELSE <<>>
                             /\ UNCHANGED <<word0, nullDeref>>
                    ELSE \* p is NULL and *p reads and writes the word at address 0:
                         \* either that page is unmapped and the kernel faults at the
                         \* first read, or the accesses go through on whatever is there
                         \/ /\ Ran(r, "mon_setperm", <<Msg("Before: ", <<>>, <<>>)>>)
                            /\ pc' = "fault"
                            /\ nullDeref' = TRUE
                            /\ last' = Edited(a, addr, FALSE, word0, word0)
                            /\ undo' = <<>>
                            /\ UNCHANGED <<status, pgtab, word0>>
                         \/ LET ed == EditEntry(word0, a, perm0)
                            IN  /\ word0' = ed.e
                                /\ Ran(r, "mon_setperm", SetpermReport(word0, ed))
                                /\ Returned(0)
                                /\ nullDeref' = TRUE
                                /\ last' = Edited(a, addr, FALSE, word0, ed.e)
                                /\ undo' = <<>>
                                /\ UNCHANGED pgtab

(***************************************************************************)
(* mon_help, mon_setcolor                                                  *)
(***************************************************************************)

\* for (i = 0; i < ARRAY_SIZE(commands); i++) cprintf("%s - %s\n", name, desc):
\* one message for each entry, with the entry's index and name
HelpReport == [i \in 1..Len(commands) |-> Msg("%s - %s", <<i>>, commands[i].name)]

MonHelp(R) ==
    \E r \in R :
        /\ r.func = "mon_help"
        /\ Ran(r, "mon_help", HelpReport)
        /\ Returned(0)
        /\ NoSetperm
        /\ UNCHANGED <<env_tf, envRuns, resumedWith, COLOR_>>

MonSetcolor(R) ==
    \E r \in R :
        /\ r.func = "mon_setcolor"
        /\ IF r.p.argc # 2
           THEN /\ Ran(r, "mon_setcolor", <<Msg("Usage: setcolor [int]", <<>>, <<>>)>>)
                /\ UNCHANGED COLOR_
           ELSE LET c == BitAndNot(strtol(r.args[1]), 17)
                IN  /\ COLOR_' = c
                    /\ Ran(r, "mon_setcolor", <<Msg("Color set to %x", <<c>>, <<>>)>>)
        /\ Returned(0)
        /\ NoSetperm
        /\ UNCHANGED <<env_tf, envRuns, resumedWith>>

(***************************************************************************)
(* mon_continue, mon_stepi                                                 *)
(***************************************************************************)

\* the single-step trap flag of eflags, 0x100
FL_TF == 256

\* return 0; after "Not in backtrace"
NoContextStatusError == 0 - 1

NoContextStatus == 0

\* curenv->env_tf = *tf; curenv->env_tf.tf_eflags &= ~0x100;
ContinueContextKeepsFlag(t) == t

ContinueContext(t) == [t EXCEPT !.tf_eflags = BitAndNot(@, FL_TF)]

\* curenv->env_tf = *tf; curenv->env_tf.tf_eflags |= 0x100;
StepiContext(t) == [t EXCEPT !.tf_eflags = BitOr(@, FL_TF)]

\* env_run(curenv): the scheduler takes the context as it is now and does not return
EnvRun(c) ==
    /\ resumedWith' = <<c>>
    /\ envRuns' = envRuns + 1
    /\ pc' = "resumed"
    /\ UNCHANGED status

MonContinue(R) ==
    \E r \in R :
        /\ r.func = "mon_continue"
        /\ NoSetperm
        /\ UNCHANGED COLOR_
        /\ IF r.p.argc # 1
           THEN /\ Ran(r, "mon_continue", <<Msg("Usage: c", <<>>, <<>>)>>)
                /\ Returned(0)
                /\ UNCHANGED <<env_tf, envRuns, resumedWith>>
           ELSE IF tf = <<>>
           THEN /\ Ran(r, "mon_continue", <<Msg("Not in backtrace", <<>>, <<>>)>>)
                /\ Returned(NoContextStatus)
                /\ UNCHANGED <<env_tf, envRuns, resumedWith>>
           ELSE /\ Ran(r, "mon_continue", <<>>)
                /\ env_tf' = ContinueContext(tf[1])
                /\ EnvRun(env_tf')

MonStepi(R) ==
    \E r \in R :
        /\ r.func = "mon_stepi"
        /\ NoSetperm
        /\ UNCHANGED COLOR_
        /\ IF r.p.argc # 1
           THEN /\ Ran(r, "mon_stepi", <<Msg("Usage: si", <<>>, <<>>)>>)
                /\ Returned(0)
                /\ UNCHANGED <<env_tf, envRuns, resumedWith>>
           ELSE IF tf = <<>>
           THEN /\ Ran(r, "mon_stepi", <<Msg("Not in backtrace", <<>>, <<>>)>>)
                /\ Returned(NoContextStatus)
                /\ UNCHANGED <<env_tf, envRuns, resumedWith>>
           ELSE /\ Ran(r, "mon_stepi", <<>>)
                /\ env_tf' = StepiContext(tf[1])
                /\ EnvRun(env_tf')

(***************************************************************************)
(* mon_kerninfo                                                            *)
(***************************************************************************)

\* the linker's symbols _start, entry, etext, edata, end of one kernel image
KernelSymbols ==
    [start |-> 1048588, entry |-> KERNBASE + 1048588, etext |-> KERNBASE + 1055361,
     edata |-> KERNBASE + 1127168, end |-> KERNBASE + 1129840]

KerninfoReport ==
    LET k == KernelSymbols
    IN  <<Msg("Special kernel symbols:", <<>>, <<>>),
          Msg("  _start                  %08x (phys)", <<k.start>>, <<>>),
          Msg("  entry  %08x (virt)  %08x (phys)", <<k.entry, k.entry - KERNBASE>>, <<>>),
          Msg("  etext  %08x (virt)  %08x (phys)", <<k.etext, k.etext - KERNBASE>>, <<>>),
          Msg("  edata  %08x (virt)  %08x (phys)", <<k.edata, k.edata - KERNBASE>>, <<>>),
          Msg("  end    %08x (virt)  %08x (phys)", <<k.end, k.end - KERNBASE>>, <<>>),
          Msg("Kernel executable memory footprint: %dKB",
              <<(k.end - k.entry + 1023) \div 1024>>, <<>>)>>

MonKerninfo(R) ==
    \E r \in R :
        /\ r.func = "mon_kerninfo"
        /\ Ran(r, "mon_kerninfo", KerninfoReport)
        /\ Returned(0)
        /\ NoSetperm
        /\ UNCHANGED <<env_tf, envRuns, resumedWith, COLOR_>>

(***************************************************************************)
(* mon_showmappings                                                        *)
(***************************************************************************)

\* 0xffffffff
UINT_MAX == -1

\* begin = (begin > 0xffffffff ? 0xffffffff : begin): the long is converted to
\* unsigned for the comparison with the unsigned constant
ClampAddr(x) == IF UGt(x, UINT_MAX) THEN UINT_MAX ELSE x

\* lines 122-131: the range the loop scans, <<begin, end>>
NormalRange(b0, e0) ==
    LET b1 == ClampAddr(b0)
        e1 == ClampAddr(e0)
        b2 == IF e1 < b1 THEN e1 ELSE b1
        e2 == IF e1 < b1 THEN b1 ELSE e1
        b3 == ROUNDDOWN(b2)
        e3 == ROUNDUP(e2)
    IN  <<b3, IF b3 = e3 THEN WrapAdd(e3, PGSIZE) ELSE e3>>

\* the third argument of pgdir_walk(kern_pgdir, (void *)begin, 0)
ShowmappingsCreateSet == 0 + 1

ShowmappingsCreate == 0

\* one pass of the loop body, for the page at b
MappingReport(pt, b) ==
    LET p == pgdir_walk(pt, b, ShowmappingsCreate)
        t == Walked(pt, b, ShowmappingsCreate)
    IN  <<Msg("%08x---%08x: ", <<b, WrapAdd(b, PGSIZE)>>, <<>>)>> \o
        (IF p = <<>>
         THEN <<Msg("No mapping", <<>>, <<>>)>>
         ELSE <<Msg("page %08x ", <<PTE_ADDR(t[p[1]])>>, <<>>), PteReport(t[p[1]])>>)

\* for (; begin < end; begin += PGSIZE): what is written, and the page tables after
RECURSIVE MappingsLoop(_, _, _)
MappingsLoop(pt, begin, end) ==
    IF begin < end
    THEN LET rest == MappingsLoop(Walked(pt, begin, ShowmappingsCreate),
                                  WrapAdd(begin, PGSIZE), end)
         IN  [out |-> MappingReport(pt, begin) \o rest.out, pt |-> rest.pt]
    ELSE [out |-> <<>>, pt |-> pt]

\* if (argc != 2 && argc != 3)
ShowmappingsUsageLoose(n) == n < 2

ShowmappingsUsage(n) == n # 2 /\ n # 3

MonShowmappings(R) ==
    \E r \in R :
        /\ r.func = "mon_showmappings"
        /\ last' = NoEdit
        /\ undo' = <<>>
        /\ reads' = <<>>
        /\ Returned(0)
        /\ UNCHANGED <<word0, nullDeref, env_tf, envRuns, resumedWith, COLOR_>>
        /\ IF ShowmappingsUsage(r.p.argc)
           THEN /\ Ran(r, "mon_showmappings",
                       <<Msg("Usage: showmappings ADDR1 ADDR2", <<>>, <<>>)>>)
                /\ range' = <<>>
                /\ UNCHANGED pgtab
           ELSE LET begin == strtol(r.args[1])
                    end == IF r.p.argc = 3 THEN strtol(r.args[2]) ELSE begin
                    nr == NormalRange(begin, end)
                    scan == MappingsLoop(pgtab, nr[1], nr[2])
                IN  /\ range' = nr
                    /\ pgtab' = scan.pt
                    /\ Ran(r, "mon_showmappings", scan.out)

(***************************************************************************)
(* mon_showmem                                                             *)
(***************************************************************************)

\* long vaddr = argv[1][0] == 'V' ? addr : (long)KADDR(PTE_ADDR((void *)addr));
DumpBase(sel, addr) == IF At(sel, 1) = "V" THEN addr ELSE KADDR(PTE_ADDR(addr))

\* the values of i in for (int i = 0; i < n; i += 4)
DumpOffsets(n) == IF n <= 0 THEN <<>> ELSE [k \in 1..((n + 3) \div 4) |-> 4 * (k - 1)]

MonShowmem(R) ==
    \E r \in R :
        /\ r.func = "mon_showmem"
        /\ NoEditFrame
        /\ range' = <<>>
        /\ UNCHANGED <<env_tf, envRuns, resumedWith, COLOR_>>
        /\ IF r.p.argc # 4
           THEN /\ Ran(r, "mon_showmem",
                       <<Msg("Usage: showmem [Virtual|Physical] ADDR num", <<>>, <<>>)>>)
                /\ reads' = <<>>
                /\ Returned(0)
           ELSE LET addr == strtol(r.args[2])
                    vaddr == DumpBase(r.args[1], addr)
                    offs == DumpOffsets(strtol(r.args[3]))
                    at(k) == WrapAdd(vaddr, offs[k])
                    bad == {k \in 1..Len(offs) : at(k) \notin DOMAIN mem}
                    \* the words read before the first address that faults, if one does
                    done == IF bad = {} THEN Len(offs)
                            ELSE (CHOOSE k \in bad : \A j \in bad : k <= j) - 1
                    shown == [k \in 1..done |->
                                Msg("%s Memory at %08x is %08x",
                                    <<WrapAdd(addr, offs[k]), mem[at(k)]>>, r.args[1])]
                IN  /\ Ran(r, "mon_showmem", shown)
                    /\ IF bad = {}
                       THEN /\ reads' = [k \in 1..done |-> at(k)]
                            /\ Returned(0)
                       ELSE /\ reads' = [k \in 1..(done + 1) |-> at(k)]
                            /\ pc' = "fault"
                            /\ UNCHANGED status

(***************************************************************************)
(* mon_backtrace                                                           *)
(***************************************************************************)

\* debuginfo_eip(eip, &eip_info): what it stores in eip_info.  The symbol table is
\* abstracted: every function is 16 bytes long and starts at a multiple of 16, and
\* the line of an address is its offset in the function
debuginfo_eip(eip) ==
    [eip_file |-> <<"k", "e", "r", "n">>,
     eip_line |-> eip % 16,
     eip_fn_name |-> <<"f">>,
     eip_fn_namelen |-> 1,
     eip_fn_addr |-> WrapSub(eip, eip % 16)]

\* eip = *((uint32_t *)ebp + 2): the word above the return address
FrameEipOff(e) == WrapAdd(e, 8)

\* eip = *((uint32_t *)ebp + 1)
FrameEip(e) == WrapAdd(e, 4)

\* uint32_t *args = (uint32_t *)ebp + 2;  &args[i]
FrameArg(e, i) == WrapAdd(e, 8 + 4 * i)

\* the addresses one pass of the while loop reads a word at, in order
FrameReads(e) == <<FrameEip(e)>> \o [k \in 1..5 |-> FrameArg(e, k - 1)] \o <<e>>

\* what one pass of the while loop prints for the frame at e when its first k reads
\* succeed: nothing before the return address is read, then one cprintf per word
FrameReport(m, e, k) ==
    LET eip == m[FrameEip(e)]
        info == debuginfo_eip(eip)
        head == <<Msg("  ebp %08x  eip %08x  args", <<e, eip>>, <<>>)>>
        words == [i \in 1..(IF k >= 6 THEN 5 ELSE k - 1) |->
                    Msg(" %08x", <<m[FrameArg(e, i - 1)]>>, <<>>)]
        tail == <<Msg("", <<>>, <<>>),
                  Msg("         %s:%d: %.*s+%d",
                      <<info.eip_line, info.eip_fn_namelen, WrapSub(eip, info.eip_fn_addr)>>,
                      <<info.eip_file, info.eip_fn_name>>)>>
    IN  IF k = 0 THEN <<>>
        ELSE IF k < 6 THEN head \o words
        ELSE head \o words \o tail

\* while (ebp != 0) { ... ebp = *((uint32_t *)ebp); } from the frame pointer e, the
\* frames in seen having been visited: what is printed, the frame pointers visited,
\* and how the loop ends.  Memory does not change in the loop, so a frame pointer
\* that comes back is followed for ever
RECURSIVE BacktraceLoop(_, _, _)
BacktraceLoop(m, e, seen) ==
    IF e = 0 THEN [out |-> <<>>, frames |-> <<>>, end |-> "done"]
    ELSE IF e \in seen THEN [out |-> <<>>, frames |-> <<>>, end |-> "hang"]
    ELSE LET rd == FrameReads(e)
             bad == {k \in 1..Len(rd) : rd[k] \notin DOMAIN m}
             ok == IF bad = {} THEN Len(rd)
                   ELSE (CHOOSE k \in bad : \A j \in bad : k <= j) - 1
         IN  IF bad # {}
             THEN [out |-> FrameReport(m, e, ok), frames |-> <<e>>, end |-> "fault"]
             ELSE LET rest == BacktraceLoop(m, m[e], seen \cup {e})
                  IN  [out |-> FrameReport(m, e, ok) \o rest.out,
                       frames |-> <<e>> \o rest.frames,
                       end |-> rest.end]

\* mon_backtrace ignores argc and argv
MonBacktrace(R) ==
    \E r \in R :
        /\ r.func = "mon_backtrace"
        /\ NoEditFrame
        /\ range' = <<>>
        /\ UNCHANGED <<env_tf, envRuns, resumedWith, COLOR_>>
        /\ LET walk == BacktraceLoop(mem, ebp, {})
           IN  /\ Ran(r, "mon_backtrace",
                      <<Msg("Stack backtrace:", <<>>, <<>>)>> \o walk.out)
               /\ reads' = walk.frames
               /\ IF walk.end = "done"
                  THEN Returned(0)
                  ELSE /\ pc' = walk.end
                       /\ UNCHANGED status

(***************************************************************************)
(* Command lines                                                           *)
(***************************************************************************)

RECURSIVE Join(_)
Join(ws) ==
    IF Len(ws) = 0 THEN <<>>
    ELSE IF Len(ws) = 1 THEN ws[1]
    ELSE ws[1] \o <<" ">> \o Join(Tail(ws))

A_1000 == <<"0", "x", "1", "0", "0", "0">>

A_5000 == <<"0", "x", "5", "0", "0", "0">>

W_flip == <<"f", "l", "i", "p">>

PermAddrs == {A_1000, A_5000}

PermOps == {W_clear, W_set, W_change, W_flip}

PermSpecs == {<<"P">>, <<"W">>, <<"U">>, <<"X">>, <<"0", "x", "6">>}

PermLines ==
    {Join(<<W_setperm, a, op, s>>) : a \in PermAddrs, op \in PermOps, s \in PermSpecs}
        \cup {Join(<<W_setperm>>), Join(<<W_setperm, A_1000, W_set>>)}

\* runcmd on each of these lines
PermRuns == {Runcmd(l) : l \in PermLines}

(***************************************************************************)
(* Initial states and specifications                                       *)
(***************************************************************************)

\* monitor() is entered: nothing read yet
\* the frame pointer of the handlers' frame on the kernel stack, in the models whose
\* memory does not hold the stack
KSTACKFRAME == KERNBASE + 1114040

InitLoop ==
    /\ pc = "readline"
    /\ line = <<>>
    /\ buf = <<>>
    /\ argc = 0
    /\ argv = [k \in 0..(MAXARGS - 1) |-> -1]
    /\ argvOob = FALSE
    /\ out = <<>>
    /\ handler = "none"
    /\ status = 0
    /\ lastRead = "none"
    /\ eofSeen = FALSE
    /\ envRuns = 0
    /\ resumedWith = <<>>
    /\ nullDeref = FALSE
    /\ last = NoEdit
    /\ undo = <<>>
    /\ range = <<>>
    /\ reads = <<>>
    /\ COLOR_ = 0

\* the page at 0x1000 is mapped to the frame at 0x3000 with any permission bits
InitPerm ==
    /\ InitLoop
    /\ ebp = KSTACKFRAME
    /\ tf = <<>>
    /\ env_tf = [tf_eflags |-> 2, tf_eip |-> 8388608, tf_esp |-> 4005248]
    /\ \E b \in 0..7 : pgtab = (4096 :> (12288 + b))
    /\ word0 = 0
    /\ mem = <<>>

NextPerm == MonSetperm(PermRuns)

SpecPerm == InitPerm /\ [][NextPerm]_vars

\* the lines of execution control, with and without a surplus argument
ExecLines ==
    {W_continue, W_c, W_stepi, W_si, Join(<<W_c, <<"x">>>>), Join(<<W_stepi, <<"1">>>>),
     <<" ">> \o W_si \o <<"\t">>, <<"\t">> \o W_continue \o <<"\n">>}

ExecRuns == {Runcmd(l) : l \in ExecLines}

\* the contexts a trap may have saved: eflags with and without the trap flag
Trapframes ==
    {[tf_eflags |-> f, tf_eip |-> ip, tf_esp |-> 4005232] :
        f \in {2, 258, 514, 770}, ip \in {8388640, 8388644}}

\* monitor(NULL) or monitor(tf); curenv holds an older context
InitExec ==
    /\ InitLoop
    /\ ebp = KSTACKFRAME
    /\ tf \in {<<>>} \cup {<<t>> : t \in Trapframes}
    /\ env_tf \in {[tf_eflags |-> f, tf_eip |-> 8388608, tf_esp |-> 4005248] : f \in {582, 838}}
    /\ pgtab = (4096 :> 12291)
    /\ word0 = 0
    /\ mem = <<>>

NextExec == MonContinue(ExecRuns) \/ MonStepi(ExecRuns)

SpecExec == InitExec /\ [][NextExec]_vars

\* addresses as typed for showmappings: in a page, on a page boundary, in decimal,
\* just below 2^31 and just below 2^32
A_1004 == <<"0", "x", "1", "0", "0", "4">>

A_3000 == <<"0", "x", "3", "0", "0", "0">>

A_dec4096 == <<"4", "0", "9", "6">>

A_7ffff001 == <<"0", "x", "7", "f", "f", "f", "f", "0", "0", "1">>

A_ffffffff == <<"0", "x", "f", "f", "f", "f", "f", "f", "f", "f">>

MapAddrs == {A_1000, A_1004, A_3000, A_5000, A_dec4096, A_7ffff001, A_ffffffff}

MapLines ==
    {Join(<<W_showmappings, a>>) : a \in MapAddrs}
        \cup {Join(<<W_showmappings, a, b>>) : a \in MapAddrs, b \in MapAddrs}
        \cup {W_showmappings, Join(<<W_showmappings, A_1000, A_3000, A_5000>>)}

MapRuns == {Runcmd(l) : l \in MapLines}

\* the pages at 0x1000 and 0x2000 have entries and the other pages have none, or
\* the page at 0x3000 is the only one that has an entry
InitMap ==
    /\ InitLoop
    /\ ebp = KSTACKFRAME
    /\ tf = <<>>
    /\ env_tf = [tf_eflags |-> 2, tf_eip |-> 8388608, tf_esp |-> 4005248]
    /\ \/ \E b \in {0, 3, 5} : pgtab = (4096 :> (12288 + b)) @@ (8192 :> 16391)
       \/ pgtab = (12288 :> 20487)
    /\ word0 = 0
    /\ mem = <<>>

NextMap == MonShowmappings(MapRuns)

SpecMap == InitMap /\ [][NextMap]_vars

\* showmem: the selector, the base address and the byte count as typed
W_Virtual == <<"V", "i", "r", "t", "u", "a", "l">>

W_Physical == <<"P", "h", "y", "s", "i", "c", "a", "l">>

A_f0001000 == <<"0", "x", "f", "0", "0", "0", "1", "0", "0", "0">>

A_f0001004 == <<"0", "x", "f", "0", "0", "0", "1", "0", "0", "4">>

A_1008 == <<"0", "x", "1", "0", "0", "8">>

MemAddrs == {A_f0001000, A_f0001004, A_1000, A_1004, A_1008}

MemCounts == {<<"0">>, <<"4">>, <<"5">>, <<"8">>}

MemLines ==
    {Join(<<W_showmem, sel, a, n>>) :
        sel \in {W_Virtual, W_Physical, <<"V">>}, a \in MemAddrs, n \in MemCounts}
        \cup {W_showmem, Join(<<W_showmem, W_Physical, A_1000>>)}

MemRuns == {Runcmd(l) : l \in MemLines}

\* the words of kernel memory that can be read: the first four words of the
\* physical page at 0x1000, at KERNBASE + 0x1000; a read anywhere else faults
KernelWords == {KERNBASE + 4096 + 4 * k : k \in 0..3}

InitMem ==
    /\ InitLoop
    /\ ebp = KSTACKFRAME
    /\ tf = <<>>
    /\ env_tf = [tf_eflags |-> 2, tf_eip |-> 8388608, tf_esp |-> 4005248]
    /\ pgtab = (4096 :> 12291)
    /\ word0 = 0
    /\ \E seed \in {1, 2} : mem = [a \in KernelWords |-> 16 * (a - KERNBASE) + seed]

NextMem == MonShowmem(MemRuns)

SpecMem == InitMem /\ [][NextMem]_vars

\* how many tokens past MAXARGS the longest lines have
ExtraTokens == 2

\* a line of n tokens: first, then n - 1 times "a", each preceded by sep
RECURSIVE Padded(_, _, _)
Padded(first, n, sep) ==
    IF n <= 1 THEN first ELSE Padded(first, n - 1, sep) \o sep \o <<"a">>

W_Help == <<"H", "e", "l", "p">>

W_foo == <<"f", "o", "o">>

ReplLines ==
    {<<>>, <<" ">>, <<"\t", "\r", "\n", " ">>, W_help, W_Help, W_foo, W_kerninfo,
     <<" ">> \o W_help \o <<" ", "\t">>, Join(<<W_help, W_foo>>), W_setcolor,
     <<" ">> \o W_help \o <<" ", "\t">> \o W_foo \o <<"\t">>,
     Join(<<W_setcolor, <<"7">>>>), Join(<<W_setcolor, <<"0", "x", "1", "f">>>>)}
        \cup {Padded(first, n, sep) :
                first \in {W_help, W_foo},
                n \in (MAXARGS - 2)..(MAXARGS + ExtraTokens),
                sep \in {<<" ">>, <<"\t", " ">>}}

ReplRuns == {Runcmd(l) : l \in ReplLines}

InitRepl ==
    /\ InitLoop
    /\ ebp = KSTACKFRAME
    /\ tf = <<>>
    /\ env_tf = [tf_eflags |-> 2, tf_eip |-> 8388608, tf_esp |-> 4005248]
    /\ pgtab = (4096 :> 12291)
    /\ word0 = 0
    /\ mem = <<>>

NextRepl ==
    \/ ReadlineNull
    \/ RuncmdTooMany(ReplRuns)
    \/ RuncmdEmpty(ReplRuns)
    \/ RuncmdUnknown(ReplRuns)
    \/ MonHelp(ReplRuns)
    \/ MonKerninfo(ReplRuns)
    \/ MonSetcolor(ReplRuns)

SpecRepl == InitRepl /\ [][NextRepl]_vars

\* how many frames the longest frame-pointer chain has
MaxFrames == 3

\* the frame pointer of the j-th frame slot of the kernel stack
BtFrame(j) == KERNBASE + 69376 + 32 * j

\* the chains: the slots of the frames in chain order, the current frame first
BtChains ==
    {c \in UNION {[1..n -> 1..MaxFrames] : n \in 1..MaxFrames} :
        \A i, j \in 1..Len(c) : i # j => c[i] # c[j]}

\* the saved frame pointer of the outermost frame: zero, an address where nothing
\* can be read, or the frame the chain began at
BtEnd(c, how) ==
    IF how = "zero" THEN 0
    ELSE IF how = "wild" THEN 4
    ELSE BtFrame(c[1])

\* the stack that holds chain c: for each frame the saved frame pointer, the return
\* address and five words above it
BtStack(c, how, seed) ==
    LET Pos(j) == CHOOSE k \in 1..Len(c) : c[k] = j
        Saved(j) == IF Pos(j) = Len(c) THEN BtEnd(c, how) ELSE BtFrame(c[Pos(j) + 1])
        Word(j, w) ==
            IF w = 0 THEN Saved(j)
            ELSE IF w = 1 THEN KERNBASE + 1048576 + 16 * j + seed
            ELSE 256 * j + 16 * w + seed
    IN  [a \in {BtFrame(c[k]) + 4 * w : k \in 1..Len(c), w \in 0..6} |->
            LET j == CHOOSE jj \in 1..MaxFrames : a - BtFrame(jj) \in 0..24
            IN  Word(j, (a - BtFrame(j)) \div 4)]

BtLines == {W_backtrace, Join(<<W_backtrace, W_foo>>)}

BtRuns == {Runcmd(l) : l \in BtLines}

InitBt ==
    /\ InitLoop
    /\ tf = <<>>
    /\ env_tf = [tf_eflags |-> 2, tf_eip |-> 8388608, tf_esp |-> 4005248]
    /\ pgtab = (4096 :> 12291)
    /\ word0 = 0
    /\ \E c \in BtChains, how \in {"zero", "wild", "cycle"}, seed \in {0, 5} :
        /\ ebp = BtFrame(c[1])
        /\ mem = BtStack(c, how, seed)

NextBt == MonBacktrace(BtRuns)

SpecBt == InitBt /\ [][NextBt]_vars



(***************************************************************************)
(* Properties of mon_setperm, under SpecPerm                               *)
(***************************************************************************)

\* whether the bit of mask m is set in the entry e
HasBit(e, m) == (Low31(e) \div m) % 2 = 1

\* the bit a permission letter names
LetterBit(c) == IF c = "P" THEN 1 ELSE IF c = "W" THEN 2 ELSE 4

PermLetters == {"P", "W", "U"}

\* the last pass of the loop ran setperm past its usage check
RanSetperm == handler = "mon_setperm" /\ last.kind # "none"

\* the console shows something besides the Before/After report of a normal edit
ErrorReported ==
    \E i \in 1..Len(out) :
        out[i].msg \notin {"Before: ", "After: ", "PTE_P: %x, PTE_W: %x, PTE_U: %x",
                           "...Change permission bits...", "...Clear permission bits...",
                           "...Set permission bits..."}

\* C2: when the walk finds no mapping for the address, setperm clear/set/change
\* reports an explicit error and does not read or write through the null entry.
C2_MissingMappingIsReported ==
    (RanSetperm /\ last.kind \in {"clear", "set", "change"} /\ ~last.mapped)
        => (ErrorReported /\ ~nullDeref /\ pc = "readline")

\* C3, as stated: `setperm A set X' then `setperm A clear X' on a mapped page leave
\* the entry exactly as it was before the two commands.
C3_SetThenClearRestores ==
    (undo # <<>> /\ last.letter \in PermLetters)
        => pgtab[ROUNDDOWN(last.addr)] = undo[1]

\* C3, amended: the two commands leave the entry as it was before them with bit X
\* cleared: exactly as it was when X was clear before, and without X when it was set.
C3_SetThenClearClearsBit ==
    (undo # <<>> /\ last.letter \in PermLetters)
        => LET x == LetterBit(last.letter)
               e == pgtab[ROUNDDOWN(last.addr)]
           IN  e = undo[1] - (IF HasBit(undo[1], x) THEN x ELSE 0)

\* the pair ran on an entry whose bit X was set before, and the bit is gone
C3_Witness ==
    /\ undo # <<>>
    /\ last.letter = "W"
    /\ HasBit(undo[1], 2)
    /\ pgtab[ROUNDDOWN(last.addr)] = undo[1] - 2

\* the step is a `setperm A k X' with X one of P, W, U on a mapped page
EditStep(k) ==
    /\ handler' = "mon_setperm"
    /\ last'.kind = k
    /\ last'.letter \in PermLetters
    /\ last'.mapped

\* C7: setperm set X / clear X on a mapped address changes at most bit X of the
\* entry (set makes it 1, clear makes it 0), the Before report shows the bits
\* before the edit and the After report the bits after it.
C7_OnlyNamedBitChanges ==
    [][(EditStep("set") \/ EditStep("clear")) =>
        LET page == ROUNDDOWN(last'.addr)
            x == LetterBit(last'.letter)
            e0 == pgtab[page]
            e1 == pgtab'[page]
            shown(e) == <<IF HasBit(e, 1) THEN 1 ELSE 0, IF HasBit(e, 2) THEN 1 ELSE 0,
                          IF HasBit(e, 4) THEN 1 ELSE 0>>
        IN  /\ DOMAIN pgtab' = DOMAIN pgtab
            /\ \A q \in DOMAIN pgtab : q # page => pgtab'[q] = pgtab[q]
            /\ HasBit(e1, x) = (last'.kind = "set")
            /\ e1 = e0 - (IF HasBit(e0, x) THEN x ELSE 0) + (IF HasBit(e1, x) THEN x ELSE 0)
            /\ out'[1].msg = "Before: " /\ out'[2].args = shown(e0)
            /\ out'[Len(out') - 1].msg = "After: " /\ out'[Len(out')].args = shown(e1)
            /\ status' = 0 /\ pc' = "readline"
      ]_vars

\* `setperm 0x1000 set W' ran on a present, non-writable entry
C7_Witness ==
    /\ handler = "mon_setperm"
    /\ last.kind = "set" /\ last.letter = "W" /\ last.mapped
    /\ HasBit(last.before, 1) /\ ~HasBit(last.before, 2)
    /\ out[2].args[2] = 0
    /\ out[Len(out)].args[2] = 1
    /\ pgtab[ROUNDDOWN(last.addr)] = last.before + 2

\* C8: setperm clear X on a mapped entry whose bit X is already clear leaves the
\* entry as it is, and the Before and After reports show the same bits.
C8_ClearOfClearBitIsNoop ==
    [][(EditStep("clear") /\ ~HasBit(pgtab[ROUNDDOWN(last'.addr)], LetterBit(last'.letter)))
        => /\ pgtab' = pgtab
           /\ out'[2] = out'[Len(out')]
           /\ out'[2].msg = "PTE_P: %x, PTE_W: %x, PTE_U: %x"
      ]_vars

\* a clear ran on an entry whose bit was clear already
C8_Witness ==
    /\ handler = "mon_setperm"
    /\ last.kind = "clear" /\ last.letter = "U" /\ last.mapped
    /\ ~HasBit(last.before, 4)
    /\ pgtab[ROUNDDOWN(last.addr)] = last.before

(***************************************************************************)
(* Properties of mon_continue and mon_stepi, under SpecExec                *)
(***************************************************************************)

ExecHandlers == {"mon_continue", "mon_stepi"}

\* C5: continue, c, stepi, si with no saved context write "Not in backtrace", leave
\* curenv's context as it is, do not call env_run, and return a status that keeps
\* the loop going.  (With a surplus argument the usage message comes instead.)
C5_NoContextNoEffect ==
    [][(handler' \in ExecHandlers /\ tf = <<>>) =>
        /\ env_tf' = env_tf
        /\ envRuns' = envRuns
        /\ resumedWith' = resumedWith
        /\ status' >= 0
        /\ pc' = "readline"
        /\ (argc' = 1 => out' = <<Msg("Not in backtrace", <<>>, <<>>)>>)
      ]_vars

\* stepi was given without a saved context, and the loop is back at its prompt
C5_Witness ==
    /\ handler = "mon_stepi"
    /\ tf = <<>>
    /\ argc = 1
    /\ out = <<Msg("Not in backtrace", <<>>, <<>>)>>
    /\ envRuns = 0
    /\ pc = "readline"

\* C6: with a saved context, the context env_run gets is the saved one but for the
\* trap flag, which is clear after continue and set after stepi; it is in
\* curenv->env_tf when env_run is called, and env_run is called once.
C6_ResumesSavedContext ==
    (handler \in ExecHandlers /\ tf # <<>> /\ argc = 1) =>
        /\ pc = "resumed"
        /\ envRuns = 1
        /\ resumedWith = <<env_tf>>
        /\ env_tf.tf_eip = tf[1].tf_eip
        /\ env_tf.tf_esp = tf[1].tf_esp
        /\ HasBit(env_tf.tf_eflags, 256) = (handler = "mon_stepi")
        /\ env_tf.tf_eflags - (IF HasBit(env_tf.tf_eflags, 256) THEN 256 ELSE 0)
             = tf[1].tf_eflags - (IF HasBit(tf[1].tf_eflags, 256) THEN 256 ELSE 0)

\* continue resumed a context that was saved while single-stepping
C6_Witness ==
    /\ handler = "mon_continue"
    /\ pc = "resumed"
    /\ tf # <<>>
    /\ HasBit(tf[1].tf_eflags, 256)
    /\ ~HasBit(resumedWith[1].tf_eflags, 256)
    /\ envRuns = 1

(***************************************************************************)
(* Properties of mon_showmappings, under SpecMap                           *)
(***************************************************************************)

\* C4: for every address or pair of addresses given to showmappings, the range
\* after clamping, swapping and rounding has begin <= end, both multiples of the
\* page size, and end - begin of at least one page (begin and end are longs).
C4_RangeIsNormal ==
    (handler = "mon_showmappings" /\ range # <<>>) =>
        /\ range[1] <= range[2]
        /\ range[1] % 4096 = 0
        /\ range[2] % 4096 = 0
        /\ range[1] <= LONG_MAX - 4096
        /\ range[1] + 4096 <= range[2]

(***************************************************************************)
(* Properties of mon_showmem, under SpecMem                                *)
(***************************************************************************)

\* C9: showmem Physical a n reports, for i = 0, 4, 8, ... < n, under the label
\* a + i, the word at kernel virtual address KERNBASE + a + i; showmem Virtual a n
\* the word at a + i.
C9_DumpReadsLabelledWord ==
    (handler = "mon_showmem" /\ argc = 4 /\ pc = "readline") =>
        LET sel == CStr(buf, argv[1])
            a == strtol(CStr(buf, argv[2]))
        IN  /\ Len(reads) = Len(out)
            /\ \A k \in 1..Len(out) :
                LET i == 4 * (k - 1)
                IN  /\ out[k].args[1] = a + i
                    /\ out[k].args[2] = mem[reads[k]]
                    /\ sel = <<"V", "i", "r", "t", "u", "a", "l">> => reads[k] = a + i
                    /\ sel = <<"P", "h", "y", "s", "i", "c", "a", "l">>
                          => reads[k] = KERNBASE + a + i

(***************************************************************************)
(* Properties of monitor's loop and of runcmd's tokenizer, under SpecRepl  *)
(***************************************************************************)

IsSpace(c) == c \in {"\t", "\r", "\n", " "}

\* the number of maximal runs of characters of l that are no whitespace
TokenCount(l) ==
    Cardinality({i \in 1..Len(l) : ~IsSpace(l[i]) /\ (i = 1 \/ IsSpace(l[i - 1]))})

\* C10: for a line of more than MAXARGS tokens runcmd writes "Too many arguments",
\* calls no handler and returns a status that keeps the loop going; and runcmd
\* never stores past argv[MAXARGS-1]: argc is at most MAXARGS-1.
C10_TooManyArguments ==
    /\ (lastRead = "line" /\ TokenCount(line) > MAXARGS) =>
          /\ out = <<Msg("Too many arguments (max %d)", <<MAXARGS>>, <<>>)>>
          /\ handler = "none"
          /\ status >= 0
          /\ pc = "readline"
    /\ argc <= MAXARGS - 1
    /\ argc \in DOMAIN argv
    /\ ~argvOob
    /\ DOMAIN argv = 0..(MAXARGS - 1)

\* a line of MAXARGS + 1 tokens that begins with the name of a command was turned down
C10_Witness ==
    /\ lastRead = "line"
    /\ TokenCount(line) = MAXARGS + 1
    /\ SubSeq(line, 1, 5) = <<"h", "e", "l", "p", " ">>
    /\ out = <<Msg("Too many arguments (max %d)", <<MAXARGS>>, <<>>)>>
    /\ handler = "none"
    /\ argc = MAXARGS - 1


(***************************************************************************)
(* Properties of runcmd's lookup, under SpecRepl                           *)
(***************************************************************************)

\* the indexes at which a maximal run of non-whitespace characters of l begins
TokenStarts(l) == {i \in 1..Len(l) : ~IsSpace(l[i]) /\ (i = 1 \/ IsSpace(l[i - 1]))}

\* the k-th maximal run of non-whitespace characters of l, for k in 1..TokenCount(l)
Token(l, k) ==
    LET s == CHOOSE i \in TokenStarts(l) :
                 Cardinality({j \in TokenStarts(l) : j < i}) = k - 1
        e == CHOOSE j \in s..Len(l) :
                 /\ \A m \in s..j : ~IsSpace(l[m])
                 /\ (j = Len(l) \/ IsSpace(l[j + 1]))
    IN  SubSeq(l, s, e)

\* the names of the command registry
RegisteredNames ==
    {<<"h", "e", "l", "p">>, <<"k", "e", "r", "n", "i", "n", "f", "o">>,
     <<"b", "a", "c", "k", "t", "r", "a", "c", "e">>,
     <<"s", "e", "t", "c", "o", "l", "o", "r">>,
     <<"s", "h", "o", "w", "m", "a", "p", "p", "i", "n", "g", "s">>,
     <<"s", "e", "t", "p", "e", "r", "m">>, <<"s", "h", "o", "w", "m", "e", "m">>,
     <<"c", "o", "n", "t", "i", "n", "u", "e">>, <<"c">>,
     <<"s", "t", "e", "p", "i">>, <<"s", "i">>}

\* runcmd wrote "Unknown command" with the line's first token, called no handler and
\* returned to the loop, which goes on
UnknownCommandOutcome ==
    /\ out = <<Msg("Unknown command '%s'", <<>>, Token(line, 1))>>
    /\ handler = "none"
    /\ status >= 0
    /\ pc = "readline"

\* C11, as stated: for every line whose first token is no name of the registry,
\* runcmd writes "Unknown command", calls no handler and the loop goes on.
C11_UnknownCommand ==
    (lastRead = "line" /\ TokenCount(line) >= 1 /\ Token(line, 1) \notin RegisteredNames)
        => UnknownCommandOutcome

\* C11, amended: that holds for the lines of fewer than MAXARGS tokens; a line of
\* MAXARGS tokens or more gets "Too many arguments" whatever its first token is, and
\* likewise calls no handler and lets the loop go on.
C11_UnknownCommandUnlessTooMany ==
    (lastRead = "line" /\ TokenCount(line) >= 1 /\ Token(line, 1) \notin RegisteredNames)
        => IF TokenCount(line) < MAXARGS
           THEN UnknownCommandOutcome
           ELSE /\ out = <<Msg("Too many arguments (max %d)", <<MAXARGS>>, <<>>)>>
                /\ handler = "none"
                /\ status >= 0
                /\ pc = "readline"

\* the line "Help", which differs from a registered name in case only, was turned
\* down as unknown
C11_Witness ==
    /\ lastRead = "line"
    /\ line = <<"H", "e", "l", "p">>
    /\ UnknownCommandOutcome


(***************************************************************************)
(* Properties of mon_showmappings' scan, under SpecMap                     *)
(***************************************************************************)

\* the indexes of out at which a report line of showmappings begins
LineStarts == {i \in 1..Len(out) : out[i].msg = "%08x---%08x: "}

\* the report line that begins at out[i] is the one of the page at va
IsLineOf(i, va) ==
    /\ out[i].args = <<va, WrapAdd(va, 4096)>>
    /\ IF va \in DOMAIN pgtab
       THEN /\ i + 2 <= Len(out)
            /\ out[i + 1].msg = "page %08x "
            /\ out[i + 1].args = <<pgtab[va] - (pgtab[va] % 4096)>>
            /\ out[i + 2].msg = "PTE_P: %x, PTE_W: %x, PTE_U: %x"
            /\ out[i + 2].args = <<IF HasBit(pgtab[va], 1) THEN 1 ELSE 0,
                                   IF HasBit(pgtab[va], 2) THEN 1 ELSE 0,
                                   IF HasBit(pgtab[va], 4) THEN 1 ELSE 0>>
       ELSE /\ i + 1 <= Len(out)
            /\ out[i + 1].msg = "No mapping"

\* C12: showmappings writes one report line for each page of the normalized range,
\* (end - begin) / PGSIZE lines in ascending order of address, and nothing else; the
\* line of a page without an entry says "No mapping".
C12_OneLinePerPage ==
    (handler = "mon_showmappings" /\ range # <<>>) =>
        LET n == WrapSub(range[2], range[1]) \div 4096
        IN  /\ Cardinality(LineStarts) = n
            /\ \A i \in LineStarts :
                 LET k == Cardinality({j \in LineStarts : j < i})
                 IN  IsLineOf(i, WrapAdd(range[1], 4096 * k))
            /\ \A i \in 1..Len(out) :
                 i \in LineStarts \/ i - 1 \in LineStarts
                     \/ (i - 2 \in LineStarts /\ out[i - 1].msg = "page %08x ")


(***************************************************************************)
(* The commands that check their argument count, with too few, the right   *)
(* number and too many arguments                                           *)
(***************************************************************************)

UsageLines ==
    {W_setcolor, Join(<<W_setcolor, <<"7">>>>), Join(<<W_setcolor, <<"7">>, <<"7">>>>),
     W_showmappings, Join(<<W_showmappings, A_1000>>),
     Join(<<W_showmappings, A_1000, A_3000>>),
     Join(<<W_showmappings, A_1000, A_3000, A_5000>>),
     W_setperm, Join(<<W_setperm, A_1000, W_set>>), Join(<<W_setperm, A_5000, W_set>>),
     Join(<<W_setperm, A_1000, W_set, <<"W">>>>),
     Join(<<W_setperm, A_1000, W_clear, <<"W">>>>),
     Join(<<W_setperm, A_1000, W_set, <<"W">>, <<"U">>>>),
     W_showmem, Join(<<W_showmem, W_Virtual, A_f0001000>>),
     Join(<<W_showmem, W_Virtual, A_f0001000, <<"8">>>>),
     Join(<<W_showmem, W_Physical, A_1000, <<"4">>>>),
     Join(<<W_showmem, W_Virtual, A_f0001000, <<"8">>, <<"8">>>>),
     W_continue, W_c, Join(<<W_c, <<"x">>>>), Join(<<W_continue, <<"1">>, <<"2">>>>),
     W_stepi, W_si, Join(<<W_si, <<"x">>>>), Join(<<W_stepi, <<"1">>, <<"2">>>>)}

UsageRuns == {Runcmd(l) : l \in UsageLines}

\* monitor(NULL) or monitor(tf); the page at 0x1000 has an entry and the first words
\* of the frame at 0x1000 can be read
InitUsage ==
    /\ InitLoop
    /\ ebp = KSTACKFRAME
    /\ tf \in {<<>>, <<[tf_eflags |-> 258, tf_eip |-> 8388640, tf_esp |-> 4005232]>>}
    /\ env_tf = [tf_eflags |-> 582, tf_eip |-> 8388608, tf_esp |-> 4005248]
    /\ \E b \in {1, 3} : pgtab = (4096 :> (12288 + b))
    /\ word0 = 0
    /\ mem = [a \in KernelWords |-> 16 * (a - KERNBASE) + 1]

NextUsage ==
    \/ MonSetcolor(UsageRuns)
    \/ MonShowmappings(UsageRuns)
    \/ MonSetperm(UsageRuns)
    \/ MonShowmem(UsageRuns)
    \/ MonContinue(UsageRuns)
    \/ MonStepi(UsageRuns)

SpecUsage == InitUsage /\ [][NextUsage]_vars

(***************************************************************************)
(* Properties of the argument-count checks, under SpecUsage                *)
(***************************************************************************)

\* the argument counts (argc, the command's name included) a handler accepts
WantedArgc(h) ==
    CASE h = "mon_setcolor" -> {2}
      [] h = "mon_showmappings" -> {2, 3}
      [] h = "mon_setperm" -> {4}
      [] h = "mon_showmem" -> {4}
      [] h \in {"mon_continue", "mon_stepi"} -> {1}

\* the first line of a handler's usage message
UsageOf(h) ==
    CASE h = "mon_setcolor" -> "Usage: setcolor [int]"
      [] h = "mon_showmappings" -> "Usage: showmappings ADDR1 ADDR2"
      [] h = "mon_setperm" -> "Usage: setperm ADDR [clear|set] [P|W|U]"
      [] h = "mon_showmem" -> "Usage: showmem [Virtual|Physical] ADDR num"
      [] h = "mon_continue" -> "Usage: c"
      [] h = "mon_stepi" -> "Usage: si"

\* C13: setcolor, showmappings, setperm, showmem, continue/c and stepi/si called
\* with an argument count they do not accept write their usage message and nothing
\* else, read and change no page-table entry, dump no memory, leave the active
\* task's context alone, do not call env_run, and return a status that keeps the
\* loop going.
C13_WrongArgcOnlyUsage ==
    [][(/\ lastRead' = "line"
        /\ handler' \in {"mon_setcolor", "mon_showmappings", "mon_setperm",
                         "mon_showmem", "mon_continue", "mon_stepi"}
        /\ argc' \notin WantedArgc(handler'))
       => /\ out' = <<[msg |-> UsageOf(handler'), args |-> <<>>, text |-> <<>>]>>
          /\ pgtab' = pgtab /\ word0' = word0 /\ nullDeref' = nullDeref
          /\ last'.kind = "none" /\ range' = <<>> /\ reads' = <<>>
          /\ mem' = mem /\ COLOR_' = COLOR_
          /\ env_tf' = env_tf /\ envRuns' = envRuns /\ resumedWith' = resumedWith
          /\ status' >= 0 /\ pc' = "readline"
      ]_vars

\* setperm with five arguments on a mapped page, with a saved context at hand and
\* after a setcolor, wrote its usage message
C13_Witness ==
    /\ handler = "mon_setperm"
    /\ argc = 5
    /\ tf # <<>>
    /\ COLOR_ = 6
    /\ 4096 \in DOMAIN pgtab
    /\ out = <<Msg("Usage: setperm ADDR [clear|set] [P|W|U]", <<>>, <<>>)>>


(***************************************************************************)
(* Properties of runcmd's tokenizer, under SpecRepl                        *)
(***************************************************************************)

\* C14: a line of whitespace characters only, the empty line included, tokenizes to
\* zero arguments; runcmd calls no handler, writes nothing, changes no kernel state
\* and returns a status that keeps the loop going.
C14_BlankLineIsNoop ==
    [][(lastRead' = "line" /\ \A i \in 1..Len(line') : IsSpace(line'[i]))
       => /\ argc' = 0
          /\ argv'[0] = 0
          /\ handler' = "none"
          /\ out' = <<>>
          /\ status' >= 0 /\ pc' = "readline"
          /\ pgtab' = pgtab /\ word0' = word0 /\ mem' = mem /\ COLOR_' = COLOR_
          /\ tf' = tf /\ env_tf' = env_tf /\ envRuns' = envRuns
          /\ resumedWith' = resumedWith
      ]_vars

\* the line of a tab, a CR, a LF and a blank was read after a setcolor and did nothing
C14_Witness ==
    /\ lastRead = "line"
    /\ line = <<"\t", "\r", "\n", " ">>
    /\ argc = 0
    /\ out = <<>>
    /\ COLOR_ = 6


(***************************************************************************)
(* Properties of mon_setperm's keywords, under SpecPerm                    *)
(***************************************************************************)

\* C15: setperm on a mapped page with a keyword other than clear, set and change,
\* or with clear or set and a specifier that does not begin with P, W or U, leaves
\* the stored entry as it was.
C15_OtherInputLeavesEntry ==
    [][(/\ handler' = "mon_setperm"
        /\ last'.mapped
        /\ \/ last'.kind = "other"
           \/ last'.kind \in {"clear", "set"} /\ last'.letter \notin PermLetters)
       => pgtab' = pgtab
      ]_vars


\* runcmd turned the line down for its number of arguments
TooManyOutcome ==
    /\ out = <<Msg("Too many arguments (max %d)", <<MAXARGS>>, <<>>)>>
    /\ handler = "none"

\* C16, as stated: every line of at most MAXARGS tokens, the number the message
\* announces, is tokenized completely and dispatched.
C16_AcceptsMaxargsTokens ==
    (lastRead = "line" /\ TokenCount(line) <= MAXARGS)
        => (~TooManyOutcome /\ argc = TokenCount(line))

\* C16, amended: every line of at most MAXARGS - 1 tokens is tokenized completely
\* and dispatched; a line of MAXARGS tokens or more is turned down.
C16_AcceptsBelowMaxargsTokens ==
    lastRead = "line" =>
        IF TokenCount(line) <= MAXARGS - 1
        THEN ~TooManyOutcome /\ argc = TokenCount(line)
        ELSE TooManyOutcome

\* a line of exactly MAXARGS tokens was turned down
C16_Witness ==
    /\ lastRead = "line"
    /\ TokenCount(line) = MAXARGS
    /\ TooManyOutcome


\* the C string that begins at index p of the buffer b: the characters up to the
\* first terminator
StringAt(b, p) ==
    LET e == CHOOSE j \in (p - 1)..Len(b) :
                 /\ \A m \in p..j : b[m] # ""
                 /\ (j = Len(b) \/ b[j + 1] = "")
    IN  SubSeq(b, p, e)

\* C17: for a line that is not turned down for its number of arguments, argc is the
\* number of maximal runs of non-whitespace characters of the line, argv[i] points
\* to the i-th run in the line's own buffer, where each whitespace character has
\* been overwritten with a terminator, and argv[argc] is the null pointer.
C17_TokensAreMaximalRuns ==
    (lastRead = "line" /\ TokenCount(line) < MAXARGS) =>
        /\ argc = TokenCount(line)
        /\ Len(buf) = Len(line)
        /\ \A i \in 1..Len(line) : buf[i] = IF IsSpace(line[i]) THEN "" ELSE line[i]
        /\ \A k \in 1..argc :
             /\ argv[k - 1] \in TokenStarts(line)
             /\ Cardinality({j \in TokenStarts(line) : j < argv[k - 1]}) = k - 1
             /\ StringAt(buf, argv[k - 1]) = Token(line, k)
        /\ argv[argc] = 0
        /\ handler # "none" => handler = LookupFrom(Token(line, 1), 1)

\* a line of two tokens with whitespace before, between and after them was
\* tokenized and dispatched
C17_Witness ==
    /\ lastRead = "line"
    /\ line = <<" ", "h", "e", "l", "p", " ", "\t", "f", "o", "o", "\t">>
    /\ argc = 2
    /\ StringAt(buf, argv[0]) = <<"h", "e", "l", "p">>
    /\ StringAt(buf, argv[1]) = <<"f", "o", "o">>
    /\ handler = "mon_help"


\* C18: `setperm A change MASK' on a mapped page leaves the entry equal to the
\* bitwise OR of the entry before and MASK: a bit is set after the command exactly
\* when it was set before or is set in MASK; the other entries are unchanged.
C18_ChangeOrsMask ==
    [][(handler' = "mon_setperm" /\ last'.kind = "change" /\ last'.mapped)
       => LET page == ROUNDDOWN(last'.addr)
              mask == strtol(StringAt(buf', argv'[3]))
              e0 == pgtab[page]
              e1 == pgtab'[page]
          IN  /\ DOMAIN pgtab' = DOMAIN pgtab
              /\ \A q \in DOMAIN pgtab : q # page => pgtab'[q] = pgtab[q]
              /\ \A k \in 0..30 :
                   HasBit(e1, 2 ^ k) = (HasBit(e0, 2 ^ k) \/ HasBit(mask, 2 ^ k))
              /\ (e1 < 0) = (e0 < 0 \/ mask < 0)
      ]_vars

\* `setperm 0x1000 change 0x6' ran on an entry that had neither W nor U
C18_Witness ==
    /\ handler = "mon_setperm"
    /\ last.kind = "change" /\ last.mapped
    /\ StringAt(buf, argv[3]) = <<"0", "x", "6">>
    /\ last.before = 12289
    /\ last.after = 12295
    /\ pgtab[4096] = 12295


(***************************************************************************)
(* Properties of mon_backtrace, under SpecBt                               *)
(***************************************************************************)

\* the frame pointers of the chain that starts at e, each the word stored at the one
\* before it, up to a zero saved frame pointer; <<0>> follows the frames when none is
\* met within fuel frames or a frame pointer cannot be read
RECURSIVE ChainOf(_, _, _)
ChainOf(m, e, fuel) ==
    IF e = 0 THEN <<>>
    ELSE IF fuel = 0 \/ e \notin DOMAIN m THEN <<0>>
    ELSE <<e>> \o ChainOf(m, m[e], fuel - 1)

\* the chain from the current frame pointer ends in a zero saved frame pointer
ChainEndsInZero == \A k \in DOMAIN ChainOf(mem, ebp, MaxFrames) : ChainOf(mem, ebp, MaxFrames)[k] # 0

\* C19: when the frame-pointer chain from the current frame has n frames and ends in
\* a zero saved frame pointer, backtrace returns to the prompt after the heading and
\* exactly n frame entries of eight writes each, in chain order; the k-th entry shows
\* the k-th frame pointer, the word 4 bytes above it as the return address and the
\* words 8, 12, 16, 20 and 24 bytes above it as the five args, and the (k+1)-th frame
\* pointer is the word stored at the k-th
C19_BacktraceFollowsChain ==
    (handler = "mon_backtrace" /\ ChainEndsInZero) =>
        LET c == ChainOf(mem, ebp, MaxFrames)
            n == Len(c)
        IN  /\ pc = "readline"
            /\ status = 0
            /\ reads = c
            /\ Len(out) = 1 + 8 * n
            /\ out[1].msg = "Stack backtrace:"
            /\ \A k \in 1..n :
                LET o == 1 + 8 * (k - 1)
                IN  /\ out[o + 1].msg = "  ebp %08x  eip %08x  args"
                    /\ out[o + 1].args = <<c[k], mem[c[k] + 4]>>
                    /\ \A i \in 1..5 :
                        /\ out[o + 1 + i].msg = " %08x"
                        /\ out[o + 1 + i].args = <<mem[c[k] + 4 + 4 * i]>>
                    /\ out[o + 7].msg = ""
                    /\ out[o + 8].msg = "         %s:%d: %.*s+%d"
                    /\ k < n => c[k + 1] = mem[c[k]]
                    /\ k = n => mem[c[k]] = 0

\* a backtrace returned after walking a chain of MaxFrames frames that ends in zero
C19_Witness ==
    /\ handler = "mon_backtrace"
    /\ ChainEndsInZero
    /\ Len(ChainOf(mem, ebp, MaxFrames)) = MaxFrames
    /\ pc = "readline"
    /\ Len(reads) = MaxFrames
    /\ Len(out) = 1 + 8 * MaxFrames


(***************************************************************************)
(* Properties of mon_showmappings on the page tables, under SpecMap        *)
(***************************************************************************)

\* C20: a showmappings line, whatever its arguments, leaves the page tables as they
\* were: no entry changes, no page gains an entry (the walk is asked not to create
\* one), and nothing is written through a null entry pointer
C20_ShowmappingsReadsOnly ==
    [][handler' = "mon_showmappings" =>
        /\ pgtab' = pgtab
        /\ DOMAIN pgtab' = DOMAIN pgtab
        /\ word0' = word0
        /\ nullDeref' = nullDeref]_vars

\* a showmappings reported "No mapping" for a page, and that page still has no entry
C20_Witness ==
    /\ handler = "mon_showmappings"
    /\ range # <<>>
    /\ range[1] \notin DOMAIN pgtab
    /\ \E i \in 1..(Len(out) - 1) :
        /\ out[i].msg = "%08x---%08x: "
        /\ out[i].args[1] = range[1]
        /\ out[i + 1].msg = "No mapping"

====
